---- MODULE Spec2Model ----
(***************************************************************************)
(* Cross-invocation caching of the statusline program (src/statusline.c):  *)
(* the per-session state cache, the per-repository git status cache with   *)
(* its detached refresh, and the rate-limited sweep of dead sessions.      *)
(*                                                                         *)
(* Strings are modelled as <<tag, len>>: the first len bytes of the source *)
(* text named by tag.  The cost is fixed-point (cents).  The clock is in   *)
(* milliseconds.  Cache files are assumed to live in a directory the       *)
(* invoking user can write.                                                *)
(***************************************************************************)
EXTENDS Integers, Sequences, FiniteSets, TLC

\* ------------------------------------------------------------------ bounds
NProcs == 2            \* invocations that may overlap
SessMaxSec == 2        \* the sequential session specification stops the clock here (s)
GitMaxTicks == 3       \* the git specification stops the clock after so many ticks
MaxRepoVer == 2        \* changes of the working tree in one behaviour
MaxPid == 2            \* process ids 0..MaxPid
MaxSweeps == 3         \* enumerate-and-delete passes in one behaviour
SweepMaxIntervals == 2 \* the sweep specification stops the clock after so many intervals
MaxResolves == 2       \* resolutions of the session identifier in one behaviour
MaxLines == 3          \* lines git status writes

\* ------------------------------------------------------ program constants
CachedDirCap == 256    \* sizeof(Cached_State.working_directory)
CachedModelCap == 64   \* sizeof(Cached_State.model)
DisplayDirCap == 512   \* sizeof(Display_State.working_directory)
DisplayModelCap == 64  \* sizeof(Display_State.model)
CachedStateSize == 376 \* sizeof(Cached_State), packed: 7*8 + 256 + 64
GitRepoPathCap == 256  \* sizeof(Git_Cache.repo_path)
GitCacheSize == 352    \* sizeof(Git_Cache), packed: 2*8 + 4*4 + 64 + 256
StatusBufCap == 4096   \* sizeof(buffer) in run_git_status
GIT_CACHE_TTL_MS == 5000
CLEANUP_INTERVAL_S == 300

Procs == 1..NProcs

Min(a, b) == IF a < b THEN a ELSE b
Max(a, b) == IF a > b THEN a ELSE b

\* ----------------------------------------------------------------- strings
EmptyStr == [tag |-> 0, len |-> 0]
Str(t, n) == IF n = 0 THEN EmptyStr ELSE [tag |-> t, len |-> n]
\* A plausible slip: the string is copied whole
PrefixWhole(s, n) == s

\* memcpy of the first Min(length, n) bytes into a zeroed buffer
Prefix(s, n) == Str(s.tag, Min(s.len, n))

\* ----------------------------------------------------- session state cache
NumFields == {"used_percent", "context_size", "cost_usd", "lines_added",
              "lines_removed", "duration_ms"}

ZeroState == [used_percent |-> 0, context_size |-> 0, cost_usd |-> 0,
              lines_added |-> 0, lines_removed |-> 0, duration_ms |-> 0,
              last_update_sec |-> 0,
              working_directory |-> EmptyStr, model |-> EmptyStr]

NoFile == [size |-> -1, rec |-> ZeroState]
EmptyFile == [size |-> 0, rec |-> ZeroState]
FullFile(r) == [size |-> CachedStateSize, rec |-> r]

\* Byte offset one past each field of the packed Cached_State
FieldEnd == [used_percent |-> 8, context_size |-> 16, cost_usd |-> 24,
             lines_added |-> 32, lines_removed |-> 40, duration_ms |-> 48,
             last_update_sec |-> 56, working_directory |-> 312, model |-> 376]

\* The payload as decoded by json_parse_all: absent numbers are 0, absent
\* strings have length 0.
NoFields == [total_cost_usd |-> 0, total_lines_added |-> 0,
             total_lines_removed |-> 0, total_duration_ms |-> 0,
             used_percentage |-> 0, context_window_size |-> 0,
             current_dir |-> EmptyStr, display_name |-> EmptyStr]

CostVals == {0, 100, 250}
AddedVals == {0, 10}
RestVals == {-1, 0, 1}
StrPairs == {<<EmptyStr, EmptyStr>>, <<Str(1, 20), Str(3, 6)>>,
             <<Str(2, 300), EmptyStr>>, <<EmptyStr, Str(4, 80)>>}

\* r scales the four remaining counters together: negative, absent, present
Fields(c, a, r, d, n) ==
    [total_cost_usd |-> c, total_lines_added |-> a,
     total_lines_removed |-> r * 3,
     total_duration_ms |-> r * 5000,
     used_percentage |-> r * 40,
     context_window_size |-> r * 200000,
     current_dir |-> d, display_name |-> n]

Payloads == {Fields(c, a, r, s[1], s[2]) :
                c \in CostVals, a \in AddedVals, r \in RestVals, s \in StrPairs}
\* The payloads of the overlapping-invocation specification: the counters only
RacePayloads == {Fields(c, a, 0, EmptyStr, EmptyStr) : c \in CostVals, a \in AddedVals}

VARIABLES
    repoPath,    \* the repository the git queries of this behaviour are about
    index,       \* <repoPath>/.git/index: [exists, mtime, ver]
    gitFile,     \* /dev/shm/claude-git-<hash>: [size, rec, mtime]
    gpc,         \* per query: where its main, intermediary and worker processes are
    gq,          \* per query: the locals of get_git_status_cached, and its history
    gt,          \* per query and process: the locals of run_git_status/write_git_cache
    stateFile,   \* /dev/shm/statusline-cache.<Sid>: NoFile, or [size, rec]
    pc,          \* per invocation: where it is
    loc,         \* per invocation: its locals
    clock,       \* CLOCK_REALTIME, in milliseconds
    lastRec,     \* history: the last complete record the state file held
    sentinel,    \* /dev/shm/statusline-cleanup: [exists, mtime, mine]
    shmFiles,    \* the session ids n with a file /dev/shm/statusline-cache.<n>
    pidState,    \* per process id: what kill(pid, 0) of the sweeping user meets
    spc,         \* per invocation: where it is in cleanup_stale_caches
    sweeps,      \* history: the start times of the invocations that ran a pass
    sweepLog,    \* history: the files before and after the last pass
    hist,        \* history of the session: the payloads delivered, the races
    mainv,       \* the invocation as its caller sees it: [out, exit]
    ptree,       \* the processes above the invocation, /proc, the ids resolved
    gitOut       \* what git status wrote, and what run_git_status made of it

sessVars == <<stateFile, pc, loc, clock, lastRec, hist>>
gitVars == <<repoPath, index, gitFile, gpc, gq, gt>>
sweepVars == <<sentinel, shmFiles, pidState, spc, sweeps, sweepLog>>
mainVars == <<mainv, ptree, gitOut>>
vars == <<sessVars, gitVars, sweepVars, mainVars>>

\* A plausible slip: the file is never taken as read
ReadCachedStateNone(f) == ZeroState

\* read_cached_state into a zeroed Cached_State: read() copies the first
\* Min(size, sizeof) bytes of the file, and its result is ignored by the caller.
ReadCachedState(f) ==
    [k \in DOMAIN ZeroState |-> IF FieldEnd[k] <= f.size THEN f.rec[k] ELSE ZeroState[k]]

\* read_cached_state: bytes_read == sizeof(Cached_State)
ReadCachedStateOk(f) == f.size >= CachedStateSize

\* The record a complete file holds; an absent file stands for all-zero
Persisted(f) == IF f.size = CachedStateSize THEN f.rec ELSE ZeroState

NoDisplay == [working_directory |-> EmptyStr, model |-> EmptyStr, cost_usd |-> 0,
              lines_added |-> 0, lines_removed |-> 0, total_duration_ms |-> 0,
              used_percent |-> 0, context_size |-> 0, last_update_sec |-> 0]

\* A plausible slip: a counter of the payload is shown as it is, zero included
DisplayWithPayloadTakesZero(cached, fields, nowSec) ==
    [working_directory |->
         IF fields.current_dir.len > 0
         THEN Prefix(fields.current_dir, DisplayDirCap - 1)
         ELSE cached.working_directory,
     model |->
         IF fields.display_name.len > 0
         THEN Prefix(fields.display_name, DisplayModelCap - 1)
         ELSE cached.model,
     cost_usd |-> fields.total_cost_usd,
     lines_added |-> fields.total_lines_added,
     lines_removed |-> fields.total_lines_removed,
     total_duration_ms |-> fields.total_duration_ms,
     used_percent |-> fields.used_percentage,
     context_size |-> fields.context_window_size,
     last_update_sec |-> nowSec]

\* resolve_state, if(has_stdin): the Display_State from the payload, each
\* field falling back to the record read
DisplayWithPayload(cached, fields, nowSec) ==
    [working_directory |->
         IF fields.current_dir.len > 0
         THEN Prefix(fields.current_dir, DisplayDirCap - 1)
         ELSE cached.working_directory,
     model |->
         IF fields.display_name.len > 0
         THEN Prefix(fields.display_name, DisplayModelCap - 1)
         ELSE cached.model,
     cost_usd |-> IF fields.total_cost_usd > 0
                  THEN fields.total_cost_usd ELSE cached.cost_usd,
     lines_added |-> IF fields.total_lines_added > 0
                     THEN fields.total_lines_added ELSE cached.lines_added,
     lines_removed |-> IF fields.total_lines_removed > 0
                       THEN fields.total_lines_removed ELSE cached.lines_removed,
     total_duration_ms |-> IF fields.total_duration_ms > 0
                           THEN fields.total_duration_ms ELSE cached.duration_ms,
     used_percent |-> IF fields.used_percentage > 0
                      THEN fields.used_percentage ELSE cached.used_percent,
     context_size |-> IF fields.context_window_size > 0
                      THEN fields.context_window_size ELSE cached.context_size,
     last_update_sec |-> nowSec]

\* resolve_state, else: the Display_State from the record read alone
DisplayCacheOnly(cached) ==
    [working_directory |-> cached.working_directory,
     model |-> cached.model,
     cost_usd |-> cached.cost_usd,
     lines_added |-> cached.lines_added,
     lines_removed |-> cached.lines_removed,
     total_duration_ms |-> cached.duration_ms,
     used_percent |-> cached.used_percent,
     context_size |-> cached.context_size,
     last_update_sec |-> cached.last_update_sec]

\* A plausible slip: the payload branch is taken whether or not one arrived
ResolveDisplayAlwaysPayload(cached, has_stdin, fields, nowSec) ==
    DisplayWithPayload(cached, fields, nowSec)

\* resolve_state: the Display_State
ResolveDisplay(cached, has_stdin, fields, nowSec) ==
    IF has_stdin THEN DisplayWithPayload(cached, fields, nowSec)
    ELSE DisplayCacheOnly(cached)

\* A plausible slip: the cache takes the incoming counters as they are
MergeStateLatest(cached, fields, nowSec) ==
    [used_percent |-> fields.used_percentage,
     context_size |-> fields.context_window_size,
     cost_usd |-> fields.total_cost_usd,
     lines_added |-> fields.total_lines_added,
     lines_removed |-> fields.total_lines_removed,
     duration_ms |-> fields.total_duration_ms,
     last_update_sec |-> nowSec,
     working_directory |->
         IF fields.current_dir.len > 0
         THEN Prefix(fields.current_dir, CachedDirCap - 1)
         ELSE cached.working_directory,
     model |->
         IF fields.display_name.len > 0
         THEN Prefix(fields.display_name, CachedModelCap - 1)
         ELSE cached.model]

\* resolve_state: the new Cached_State ("Update cache")
MergeState(cached, fields, nowSec) ==
    [used_percent |-> Max(fields.used_percentage, cached.used_percent),
     context_size |-> Max(fields.context_window_size, cached.context_size),
     cost_usd |-> IF fields.total_cost_usd > cached.cost_usd
                  THEN fields.total_cost_usd ELSE cached.cost_usd,
     lines_added |-> Max(fields.total_lines_added, cached.lines_added),
     lines_removed |-> Max(fields.total_lines_removed, cached.lines_removed),
     duration_ms |-> Max(fields.total_duration_ms, cached.duration_ms),
     last_update_sec |-> nowSec,
     working_directory |->
         IF fields.current_dir.len > 0
         THEN Prefix(fields.current_dir, CachedDirCap - 1)
         ELSE cached.working_directory,
     model |->
         IF fields.display_name.len > 0
         THEN Prefix(fields.display_name, CachedModelCap - 1)
         ELSE cached.model]

\* A plausible slip: the record is written on every draw
WriteNeededAlways(new_cache, cached) == TRUE

\* memcmp(&new_cache, &cached, sizeof(Cached_State)) != 0
WriteNeeded(new_cache, cached) == new_cache # cached

IdleLoc == [has_stdin |-> FALSE, fields |-> NoFields, cached |-> ZeroState,
            new_cache |-> ZeroState, display |-> NoDisplay,
            before |-> ZeroState, alone |-> TRUE, readSize |-> -1]

NowSec == clock \div 1000

\* The payload's counters under the names of the record's fields
Incoming(fields) ==
    [used_percent |-> fields.used_percentage,
     context_size |-> fields.context_window_size,
     cost_usd |-> fields.total_cost_usd,
     lines_added |-> fields.total_lines_added,
     lines_removed |-> fields.total_lines_removed,
     duration_ms |-> fields.total_duration_ms]

ZeroNumbers == [k \in NumFields |-> 0]
NoPayload == [has_stdin |-> FALSE, fields |-> NoFields]
NoHist == [delivered |-> ZeroNumbers, phase |-> "race", raced |-> ZeroState,
           track |-> FALSE, last |-> NoPayload]
\* History: per field, the largest value a payload of the session has carried
Delivered(d, fields) == [k \in NumFields |-> Max(d[k], Incoming(fields)[k])]

\* resolve_state up to its decision to write: the read of the cache file, the
\* Display_State and the merged record, from the payload read_stdin delivered
\* (has_stdin FALSE: none arrived within the timeout).
ResolveState(p, has_stdin, fields) ==
    /\ pc[p] = "idle"
    /\ LET cached == ReadCachedState(stateFile)
           new_cache == IF has_stdin THEN MergeState(cached, fields, NowSec) ELSE cached
       IN  /\ loc' = [loc EXCEPT ![p] =
                        [has_stdin |-> has_stdin, fields |-> fields, cached |-> cached,
                         new_cache |-> new_cache,
                         display |-> ResolveDisplay(cached, has_stdin, fields, NowSec),
                         before |-> Persisted(stateFile), alone |-> stateFile.size # 0,
                         readSize |-> stateFile.size]]
           /\ pc' = [pc EXCEPT ![p] =
                        IF has_stdin /\ WriteNeeded(new_cache, cached)
                        THEN "rs_open" ELSE "resolved"]
    /\ hist' = [hist EXCEPT
                   !.delivered = Delivered(hist.delivered, fields),
                   \* history, where the behaviour keeps it: what read_stdin
                   \* delivered to this invocation
                   !.last = IF hist.track
                            THEN [has_stdin |-> has_stdin, fields |-> fields]
                            ELSE @]
    /\ UNCHANGED <<stateFile, clock, lastRec, gitVars, sweepVars, mainVars>>

\* History: the invocations that have read the file and not yet written it
\* back lose "alone" when invocation p opens or writes the file.
Disturb(p) ==
    [q \in Procs |-> IF q # p /\ pc[q] \in {"rs_open", "rs_write"}
                     THEN [loc[q] EXCEPT !.alone = FALSE] ELSE loc[q]]

\* write_cached_state: open(O_WRONLY | O_CREAT | O_TRUNC)
WriteOpen(p) ==
    /\ pc[p] = "rs_open"
    /\ stateFile' = EmptyFile
    /\ loc' = Disturb(p)
    /\ pc' = [pc EXCEPT ![p] = "rs_write"]
    /\ UNCHANGED <<clock, lastRec, hist, gitVars, sweepVars, mainVars>>

\* write_cached_state: write(file_desc, state, sizeof(Cached_State)); close
WriteData(p) ==
    /\ pc[p] = "rs_write"
    /\ stateFile' = FullFile(loc[p].new_cache)
    /\ lastRec' = loc[p].new_cache
    /\ loc' = Disturb(p)
    /\ pc' = [pc EXCEPT ![p] = "resolved"]
    /\ UNCHANGED <<clock, hist, gitVars, sweepVars, mainVars>>

\* The sizes of a file whose write stopped early, at the end of a field
ShortSizes == {FieldEnd.cost_usd, FieldEnd.last_update_sec}

\* write_cached_state: write() stores only the first n bytes (no space left in
\* /dev/shm); its result is not looked at
WriteDataShort(p, n) ==
    /\ pc[p] = "rs_write"
    /\ stateFile' = [size |-> n, rec |-> loc[p].new_cache]
    /\ loc' = Disturb(p)
    /\ pc' = [pc EXCEPT ![p] = "resolved"]
    /\ UNCHANGED <<clock, lastRec, hist, gitVars, sweepVars, mainVars>>

\* The invocation ends; its slot is free for the next one
SessionDone(p) ==
    /\ pc[p] = "resolved"
    /\ pc' = [pc EXCEPT ![p] = "idle"]
    /\ loc' = [loc EXCEPT ![p] = IdleLoc]
    /\ UNCHANGED <<stateFile, clock, lastRec, hist, gitVars, sweepVars, mainVars>>

\* History: the overlapping invocations have all ended; what the file holds
\* now is what the next invocation of the session, which runs alone, finds
RaceOver ==
    /\ hist.phase = "race"
    /\ \A p \in Procs : pc[p] = "resolved"
    /\ hist' = [hist EXCEPT !.phase = "after", !.raced = Persisted(stateFile)]
    /\ pc' = [p \in Procs |-> IF p = 1 THEN "idle" ELSE "over"]
    /\ loc' = [p \in Procs |-> IdleLoc]
    /\ UNCHANGED <<stateFile, clock, lastRec, gitVars, sweepVars, mainVars>>

\* Wall-clock time passes
SessTick ==
    /\ clock + 1000 <= SessMaxSec * 1000
    /\ clock' = clock + 1000
    /\ UNCHANGED <<stateFile, pc, loc, lastRec, hist, gitVars, sweepVars, mainVars>>

\* --------------------------------------------------------- git status cache
RepoPaths == {Str(1, GitRepoPathCap - 1), Str(2, GitRepoPathCap)}

ZeroCounts == [modified |-> 0, staged |-> 0, ahead |-> 0, behind |-> 0]
\* What `git status --porcelain -b -uno` reports for version v of the tree
TreeCounts(v) == [modified |-> v + 1, staged |-> v, ahead |-> 1, behind |-> 0]

\* struct timespec of a time in milliseconds
Mtime(ms) == [sec |-> ms \div 1000, nsec |-> (ms % 1000) * 1000000]

ZeroGitCache == [index_mtime_sec |-> 0, index_mtime_nsec |-> 0,
                 modified |-> 0, staged |-> 0, ahead |-> 0, behind |-> 0,
                 branch |-> EmptyStr, repo_path |-> EmptyStr]
NoGitFile == [size |-> -1, rec |-> ZeroGitCache, mtime |-> 0]
CountsOf(c) == [modified |-> c.modified, staged |-> c.staged,
                ahead |-> c.ahead, behind |-> c.behind]

\* strncmp(a, b, n) == 0
StrncmpEq(a, b, n) == Prefix(a, n) = Prefix(b, n)

\* A plausible slip: the age of the entry is not looked at
ReadGitCacheNoTtl(path, f, idx, now) ==
    IF f.size # GitCacheSize THEN "NONE"
    ELSE IF ~StrncmpEq(f.rec.repo_path, path, GitRepoPathCap) THEN "NONE"
    ELSE IF ~idx.exists THEN "STALE"
    ELSE IF idx.mtime.sec = f.rec.index_mtime_sec
            /\ idx.mtime.nsec = f.rec.index_mtime_nsec THEN "VALID"
    ELSE "STALE"

\* read_git_cache: the state of the entry for path, read at time now
ReadGitCache(path, f, idx, now) ==
    IF f.size # GitCacheSize THEN "NONE"
    ELSE IF ~StrncmpEq(f.rec.repo_path, path, GitRepoPathCap) THEN "NONE"
    ELSE IF now - f.mtime > GIT_CACHE_TTL_MS THEN "STALE"
    ELSE IF ~idx.exists THEN "STALE"
    ELSE IF idx.mtime.sec = f.rec.index_mtime_sec
            /\ idx.mtime.nsec = f.rec.index_mtime_nsec THEN "VALID"
    ELSE "STALE"

\* A plausible slip: a valid entry is refreshed in the background as well
DispatchRefreshAlways(state) ==
    CASE state = "VALID" -> "stale_fork"
      [] state = "STALE" -> "stale_fork"
      [] OTHER -> "run"

\* get_git_status_cached: the switch on the state
Dispatch(state) ==
    CASE state = "VALID" -> "git_done"
      [] state = "STALE" -> "stale_fork"
      [] OTHER -> "run"

\* A plausible slip: the counts are left as memset left them
GitCacheRecNoCounts(path, mt, counts) ==
    [index_mtime_sec |-> mt.sec, index_mtime_nsec |-> mt.nsec,
     modified |-> 0, staged |-> 0, ahead |-> 0, behind |-> 0,
     branch |-> EmptyStr,
     repo_path |-> Prefix(path, GitRepoPathCap - 1)]

\* A plausible slip: the modification time of the index is left out
GitCacheRecNoMtime(path, mt, counts) ==
    [index_mtime_sec |-> 0, index_mtime_nsec |-> 0,
     modified |-> counts.modified, staged |-> counts.staged,
     ahead |-> counts.ahead, behind |-> counts.behind,
     branch |-> EmptyStr,
     repo_path |-> Prefix(path, GitRepoPathCap - 1)]

\* write_git_cache: the record, from the stat of the index and the counts
GitCacheRec(path, mt, counts) ==
    [index_mtime_sec |-> mt.sec, index_mtime_nsec |-> mt.nsec,
     modified |-> counts.modified, staged |-> counts.staged,
     ahead |-> counts.ahead, behind |-> counts.behind,
     branch |-> EmptyStr,
     repo_path |-> Prefix(path, GitRepoPathCap - 1)]

IdlePc == [main |-> "idle", inter |-> "none", worker |-> "none"]
IdleTask == [counts |-> ZeroCounts, mt |-> Mtime(0), statOk |-> FALSE,
             ranOk |-> FALSE, ranVer |-> 0, child |-> "none", statVer |-> 0]
IdleQuery == [state |-> "NONE", cache |-> ZeroGitCache, result |-> ZeroCounts,
              startClock |-> 0, startVer |-> 0, startNoFile |-> FALSE,
              startIdx |-> FALSE, after |-> {}, mtimeDiffers |-> FALSE,
              calls |-> 0, forks |-> 0, writes |-> 0,
              written |-> ZeroGitCache]

\* A plausible slip: the worker returns to main as the caller does
TaskEndReturns(role) == "git_done"

\* Where a process goes when run_git_status and write_git_cache are behind it:
\* the caller returns, the worker falls through to _exit(0)
TaskEnd(role) == IF role = "main" THEN "git_done" ELSE "done"

\* get_git_status_cached up to its switch: read_git_cache and the cached counts
QueryGit(q) ==
    /\ gpc[q].main = "idle"
    /\ \A r \in Procs : r < q => gpc[r].main # "idle"
    /\ LET state == ReadGitCache(repoPath, gitFile, index, clock)
       IN  /\ gq' = [gq EXCEPT ![q] =
                      [IdleQuery EXCEPT
                         !.state = state,
                         !.cache = gitFile.rec,
                         !.result = IF state = "NONE" THEN ZeroCounts
                                    ELSE CountsOf(gitFile.rec),
                         !.startClock = clock,
                         !.startVer = index.ver,
                         !.startNoFile = (gitFile.size = -1),
                         !.startIdx = index.exists,
                         !.after = {r \in Procs : gpc[r].main = "git_done"},
                         !.mtimeDiffers =
                             /\ state = "STALE" /\ index.exists
                             /\ index.mtime # [sec |-> gitFile.rec.index_mtime_sec,
                                               nsec |-> gitFile.rec.index_mtime_nsec]]]
           /\ gpc' = [gpc EXCEPT ![q].main = Dispatch(state)]
    /\ UNCHANGED <<repoPath, index, gitFile, gt, sessVars, sweepVars, mainVars>>

\* CACHE_STALE: background_pid = fork(); the parent waits only if it succeeded
ForkBackground(q, ok) ==
    /\ gpc[q].main = "stale_fork"
    /\ gpc' = [gpc EXCEPT ![q].main = IF ok THEN "stale_wait" ELSE "git_done",
                          ![q].inter = IF ok THEN "fork" ELSE "none"]
    /\ gq' = [gq EXCEPT ![q].forks = @ + 1]
    /\ UNCHANGED <<repoPath, index, gitFile, gt, sessVars, sweepVars, mainVars>>

\* The intermediary: if(fork() == 0) { worker }
IntermediaryFork(q, ok) ==
    /\ gpc[q].inter = "fork"
    /\ gpc' = [gpc EXCEPT ![q].inter = "exiting",
                          ![q].worker = IF ok THEN "run" ELSE "none"]
    /\ gq' = [gq EXCEPT ![q].forks = @ + 1]
    /\ UNCHANGED <<repoPath, index, gitFile, gt, sessVars, sweepVars, mainVars>>

\* A plausible slip: the intermediary waits for the worker before it exits
IntermediaryExitWaits(q) ==
    /\ gpc[q].inter = "exiting"
    /\ gpc[q].worker \in {"none", "done"}
    /\ gpc' = [gpc EXCEPT ![q].inter = "zombie"]
    /\ UNCHANGED <<repoPath, index, gitFile, gq, gt, sessVars, sweepVars, mainVars>>

\* The intermediary: _exit(0)
IntermediaryExit(q) ==
    /\ gpc[q].inter = "exiting"
    /\ gpc' = [gpc EXCEPT ![q].inter = "zombie"]
    /\ UNCHANGED <<repoPath, index, gitFile, gq, gt, sessVars, sweepVars, mainVars>>

\* CACHE_STALE: waitpid(background_pid, NULL, 0), then return
WaitBackground(q) ==
    /\ gpc[q].main = "stale_wait"
    /\ gpc[q].inter = "zombie"
    /\ gpc' = [gpc EXCEPT ![q].main = "git_done", ![q].inter = "reaped"]
    /\ UNCHANGED <<repoPath, index, gitFile, gq, gt, sessVars, sweepVars, mainVars>>

\* A plausible slip: the counts are parsed although nothing was read
StatusCountsStaleBuffer(ok, ver) == TreeCounts(ver)

\* run_git_status: the four counts it leaves in its out parameters.  They are
\* zeroed first; ~ok: pipe or fork failed, or the child could not run git, or
\* git wrote nothing, and the parse loop has no line to look at.
StatusCounts(ok, ver) == IF ok THEN TreeCounts(ver) ELSE ZeroCounts

\* A plausible slip: the status subprocess is not waited for
ChildAfterRunNoWait(spawned) == IF spawned THEN "zombie" ELSE "none"

\* run_git_status: the status subprocess when the function returns; if the
\* fork succeeded, waitpid(child_pid, NULL, 0) has reaped it
ChildAfterRun(spawned) == IF spawned THEN "reaped" ELSE "none"

\* run_git_status, in the caller (CACHE_NONE) or in the worker: pipe, fork,
\* execvp, read to end of output, waitpid, parse.  ~ok: pipe or fork failed
\* (no child), or the child could not run git or git wrote nothing (a child);
\* the counts stay zero.
RunGitStatus(q, role, ok) ==
    /\ role \in {"main", "worker"}
    /\ gpc[q][role] = "run"
    /\ \E spawned \in {ok, TRUE} :
         LET counts == StatusCounts(ok, index.ver)
         IN  /\ gt' = [gt EXCEPT ![q][role].counts = counts,
                                 ![q][role].ranOk = ok,
                                 ![q][role].ranVer = index.ver,
                                 ![q][role].child = ChildAfterRun(spawned)]
             /\ gq' = [gq EXCEPT ![q].calls = @ + 1,
                                 ![q].result = IF role = "main" THEN counts ELSE @]
    /\ gpc' = [gpc EXCEPT ![q][role] = "wopen"]
    /\ UNCHANGED <<repoPath, index, gitFile, sessVars, sweepVars, mainVars>>

\* write_git_cache: stat(index_path, &index_stat) == 0
IndexStatOk(idx) == idx.exists

\* write_git_cache up to its open: stat of the index (return if it fails), the
\* record, open(O_WRONLY | O_CREAT | O_TRUNC)
GitWriteOpen(q, role) ==
    /\ role \in {"main", "worker"}
    /\ gpc[q][role] = "wopen"
    /\ IF IndexStatOk(index)
       THEN /\ gt' = [gt EXCEPT ![q][role].mt = index.mtime, ![q][role].statOk = TRUE,
                                ![q][role].statVer = index.ver]
            /\ gitFile' = [size |-> 0, rec |-> ZeroGitCache, mtime |-> clock]
            /\ gpc' = [gpc EXCEPT ![q][role] = "wdata"]
       ELSE /\ gpc' = [gpc EXCEPT ![q][role] = TaskEnd(role)]
            /\ UNCHANGED <<gt, gitFile>>
    /\ UNCHANGED <<repoPath, index, gq, sessVars, sweepVars, mainVars>>

\* write_git_cache: write(file_desc, &cache, sizeof(cache)); close
GitWriteData(q, role) ==
    /\ role \in {"main", "worker"}
    /\ gpc[q][role] = "wdata"
    /\ LET rec == GitCacheRec(repoPath, gt[q][role].mt, gt[q][role].counts)
       IN  /\ gitFile' = [size |-> GitCacheSize, rec |-> rec, mtime |-> clock]
           /\ gq' = [gq EXCEPT ![q].writes = @ + 1, ![q].written = rec]
    /\ gpc' = [gpc EXCEPT ![q][role] = TaskEnd(role)]
    /\ UNCHANGED <<repoPath, index, gt, sessVars, sweepVars, mainVars>>

\* The invocation that made query q has ended and so has the refresh it
\* launched; the slot is free for the next invocation
QueryOver(q) ==
    /\ gpc[q].main = "git_done"
    /\ gpc[q].inter \in {"none", "reaped"}
    /\ gpc[q].worker \in {"none", "done"}
    /\ gpc' = [gpc EXCEPT ![q] = IdlePc]
    /\ gq' = [gq EXCEPT ![q] = IdleQuery]
    /\ gt' = [gt EXCEPT ![q] = [main |-> IdleTask, worker |-> IdleTask]]
    /\ UNCHANGED <<repoPath, index, gitFile, sessVars, sweepVars, mainVars>>

\* The working tree changes (an edit, a commit in another terminal): the index
\* is rewritten and stamped with the current time
RepoChange ==
    /\ index.ver < MaxRepoVer
    /\ index' = [exists |-> TRUE, mtime |-> Mtime(clock), ver |-> index.ver + 1]
    /\ UNCHANGED <<repoPath, gitFile, gpc, gq, gt, sessVars, sweepVars, mainVars>>

GitTickMs == GIT_CACHE_TTL_MS \div 2

\* Wall-clock time passes
GitTick ==
    /\ clock + GitTickMs <= GitMaxTicks * GitTickMs
    /\ clock' = clock + GitTickMs
    /\ UNCHANGED <<stateFile, pc, loc, lastRec, hist, gitVars, sweepVars, mainVars>>

\* ------------------------------------------------------------------- sweep
Pids == 0..MaxPid
\* A process id as the sweeping user sees it: no such process, a process the
\* user may signal, a process of another user (kill fails with EPERM)
PidStates == {"dead", "own", "foreign"}

NoSentinel == [exists |-> FALSE, mtime |-> 0, mine |-> TRUE]
NoSweepLog == [ran |-> FALSE, before |-> {}, after |-> {}, status |-> [i \in Pids |-> "dead"]]

\* now_milliseconds / 1000 - last_seconds < CLEANUP_INTERVAL_S
SweepNotDue(s, now) ==
    /\ s.exists
    /\ now \div 1000 - s.mtime \div 1000 < CLEANUP_INTERVAL_S

\* kill(pid, 0) == 0
KillProbeOk(status) == status = "own"

\* get_git_cache_path: what strtol reads at offset 17 of the name
\* claude-git-<hash>, the last two digits of the hash, which the path decides
HashTail(path) == path.tag

\* The entries of /dev/shm: the session cache files statusline-cache.<pid> and
\* the git status cache file; head is the first 17 bytes of the name, num is
\* (int)strtol(d_name + 17, NULL, 10)
ShmDir(files, gf, path) ==
    {[head |-> "statusline-cache.", num |-> pid] : pid \in files}
      \cup (IF gf.size = -1 THEN {}
            ELSE {[head |-> "claude-git-", num |-> HashTail(path)]})

\* A plausible slip: the name of the entry is not looked at
SweepVictimsAnyName(dir, status) ==
    {e \in dir : e.num > 0 /\ ~KillProbeOk(status[e.num])}

\* The readdir loop: the entries that are unlinked
SweepVictims(dir, status) ==
    {e \in dir : /\ e.head = "statusline-cache."
                 /\ e.num > 0
                 /\ ~KillProbeOk(status[e.num])}

IdleSweep == [at |-> "idle", now |-> 0]

\* cleanup_stale_caches up to the open of the sentinel: the time, the stat of
\* the sentinel and the interval
SweepCheck(p) ==
    /\ spc[p].at = "idle"
    /\ spc' = [spc EXCEPT ![p] =
                 [at |-> IF SweepNotDue(sentinel, clock) THEN "swept" ELSE "touch",
                  now |-> clock]]
    /\ UNCHANGED <<sentinel, shmFiles, pidState, sweeps, sweepLog, sessVars, gitVars, mainVars>>

\* open(sentinel, O_WRONLY | O_CREAT | O_TRUNC, 0666); the result is used only
\* to close the descriptor.  The open fails on a sentinel of another user.
SweepTouch(p) ==
    /\ spc[p].at = "touch"
    /\ sentinel' = IF sentinel.exists /\ ~sentinel.mine THEN sentinel
                   ELSE [exists |-> TRUE, mtime |-> clock, mine |-> TRUE]
    /\ spc' = [spc EXCEPT ![p].at = "opendir"]
    /\ UNCHANGED <<shmFiles, pidState, sweeps, sweepLog, sessVars, gitVars, mainVars>>

\* opendir("/dev/shm"), and when it succeeds the readdir loop
SweepPass(p, ok) ==
    /\ spc[p].at = "opendir"
    /\ Len(sweeps) < MaxSweeps
    /\ IF ok
       THEN LET gone == SweepVictims(ShmDir(shmFiles, gitFile, repoPath), pidState)
            IN  /\ shmFiles' = shmFiles \
                       {e.num : e \in {g \in gone : g.head = "statusline-cache."}}
                /\ gitFile' = IF \E e \in gone : e.head = "claude-git-"
                              THEN NoGitFile ELSE gitFile
                /\ sweeps' = Append(sweeps, spc[p].now)
                /\ sweepLog' = [ran |-> TRUE, before |-> shmFiles,
                                after |-> shmFiles', status |-> pidState]
       ELSE UNCHANGED <<shmFiles, gitFile, sweeps, sweepLog>>
    /\ spc' = [spc EXCEPT ![p].at = "swept"]
    /\ UNCHANGED <<sentinel, pidState, sessVars, repoPath, index, gpc, gq, gt, mainVars>>

\* The invocation ends; the next one of the slot may start
SweepDone(p) ==
    /\ spc[p].at = "swept"
    /\ spc' = [spc EXCEPT ![p] = IdleSweep]
    /\ UNCHANGED <<sentinel, shmFiles, pidState, sweeps, sweepLog, sessVars, gitVars, mainVars>>

\* An invocation of the session whose identifier is pid leaves its cache file
\* (write_cached_state under the name get_cache_path gives it)
CreateCache(pid) ==
    /\ pid = 0 \/ pidState[pid] # "dead"
    /\ pid \notin shmFiles
    /\ shmFiles' = shmFiles \cup {pid}
    /\ UNCHANGED <<sentinel, pidState, spc, sweeps, sweepLog, sessVars, gitVars, mainVars>>

\* The process with this id exits
ProcExit(pid) ==
    /\ pid > 0
    /\ pidState[pid] # "dead"
    /\ pidState' = [pidState EXCEPT ![pid] = "dead"]
    /\ UNCHANGED <<sentinel, shmFiles, spc, sweeps, sweepLog, sessVars, gitVars, mainVars>>

\* Wall-clock time passes: half a second, then the rest of a sweep interval
SweepTick ==
    /\ clock < SweepMaxIntervals * CLEANUP_INTERVAL_S * 1000
    /\ clock' = IF clock % 1000 = 0 THEN clock + 500
                ELSE clock + CLEANUP_INTERVAL_S * 1000 - 500
    /\ UNCHANGED <<stateFile, pc, loc, lastRec, hist, gitVars, sweepVars, mainVars>>

\* ------------------------------------------------------ session identifier
\* What open and read of /proc/<parent>/status give: the file as the kernel
\* writes it, no file, nothing read, or a file without a PPid field
ProcKinds == {"status", "noopen", "noread", "nofield"}

\* The Name field of the parent, which comes before the PPid field: its
\* command name is ordinary, or holds "PPid:\t" followed by the digits of
\* num, or holds "PPid:\t" followed by something else (the kernel escapes
\* only newline and backslash in it)
Comms == {[kind |-> "plain", num |-> 0], [kind |-> "text", num |-> 0]}
            \cup {[kind |-> "digits", num |-> n] : n \in Pids}

\* The processes above the invocation: the parent's id, and the id of the
\* parent's parent (0: none in this namespace)
Trees == [ppid : Pids \ {0}, gpp : Pids, proc : ProcKinds, comm : Comms,
          ids : {<<>>}]
NoTree == [ppid |-> 1, gpp |-> 0, proc |-> "noopen",
           comm |-> [kind |-> "plain", num |-> 0], ids |-> <<>>]

\* (int)strtol(cursor, NULL, 10) after the first "PPid:\t" of the buffer:
\* the number there, 0 when no digit follows
StrtolAfterNeedle(t) ==
    CASE t.comm.kind = "plain" -> t.gpp
      [] t.comm.kind = "digits" -> t.comm.num
      [] t.comm.kind = "text" -> 0

\* A plausible slip: the parent's id is the identifier whatever /proc holds
GetGrandparentPidParent(t) == t.ppid

\* get_grandparent_pid
GetGrandparentPid(t) ==
    IF t.proc = "noopen" THEN t.ppid
    ELSE IF t.proc = "noread" THEN t.ppid
    ELSE IF t.proc = "nofield" /\ t.comm.kind = "plain" THEN t.ppid
    ELSE StrtolAfterNeedle(t)

\* get_cache_path: the identifier is resolved, once for each use of the path
GetCachePath ==
    /\ Len(ptree.ids) < MaxResolves
    /\ ptree' = [ptree EXCEPT !.ids = Append(@, GetGrandparentPid(ptree))]
    /\ UNCHANGED <<sessVars, gitVars, sweepVars, mainv, gitOut>>

\* ------------------------------------------------------ git status output
\* A line of the output of git status --porcelain -b: its first two bytes
\* (c1, c2; "" where the line is too short), its length without the newline,
\* and what a search of its text for "ahead " or "behind " meets: nothing
\* (0) or the number that follows.  In a header (c1 = c2 = "#") bracket tells
\* whether the line holds a '[', and ahead and behind are the entries in the
\* brackets.
Line(c1, c2, len, bracket, ahead, behind) ==
    [c1 |-> c1, c2 |-> c2, len |-> len, bracket |-> bracket,
     ahead |-> ahead, behind |-> behind]

LongLen == StatusBufCap - 3
Cols == {" ", "?", "M"}
ShortLines == {Line("", "", 0, FALSE, 0, 0)}
                \cup {Line(c, "", 1, FALSE, 0, 0) : c \in {"M", "#"}}
FileLines == {Line(c1, c2, n, FALSE, 0, 0) : c1 \in Cols, c2 \in Cols, n \in {20, LongLen}}
                \cup {Line("#", "M", 20, FALSE, 0, 0),
                      Line(" ", "M", 20, FALSE, 7, 0),
                      Line(" ", "M", 20, FALSE, 0, 7)}
HeaderLines == {Line("#", "#", 20, FALSE, 0, 0)}
                 \cup {Line("#", "#", 30, TRUE, a, b) : a \in {0, 2}, b \in {0, 1}}
Lines == ShortLines \cup FileLines \cup HeaderLines

Outputs == UNION {[1..n -> Lines] : n \in 0..MaxLines}

\* What strstr meets in the bytes of the buffer behind those read, which
\* nothing has written: nothing, or a number
Tails == {[ahead |-> a, behind |-> 0] : a \in {0, 5}}

NoOutput == [lines |-> <<>>, tail |-> [ahead |-> 0, behind |-> 0],
             parsed |-> FALSE, res |-> ZeroCounts]

\* run_git_status, the read loop: the lines of the first sizeof(buffer) bytes;
\* whole tells whether the line is there to its end
RECURSIVE Capture(_, _)
Capture(lines, room) ==
    IF lines = <<>> \/ room <= 0 THEN <<>>
    ELSE LET l == Head(lines)
             cut == [c1 |-> IF room >= 1 THEN l.c1 ELSE "",
                     c2 |-> IF room >= 2 THEN l.c2 ELSE "",
                     len |-> Min(l.len, room),
                     bracket |-> l.bracket /\ l.len <= room,
                     ahead |-> l.ahead, behind |-> l.behind,
                     whole |-> l.len <= room]
         IN  <<cut>> \o Capture(Tail(lines), room - (l.len + 1))

\* strstr(bracket, needle): the first occurrence from the bracket of the
\* header on, through the rest of the header, the lines after it and the bytes
\* behind the ones read; which is "ahead" or "behind"
RECURSIVE StrstrFrom(_, _, _)
StrstrFrom(rest, tail, which) ==
    IF rest = <<>> THEN tail[which]
    ELSE IF Head(rest).whole /\ Head(rest)[which] > 0 THEN Head(rest)[which]
    ELSE StrstrFrom(Tail(rest), tail, which)

\* A plausible slip: the first column counts whenever it is not blank
ParseLineCountsUntracked(rest, tail, acc) ==
    LET l == Head(rest)
    IN  IF l.len < 2 THEN acc
        ELSE IF l.c1 = "#" /\ l.c2 = "#"
        THEN IF l.bracket
             THEN LET a == StrstrFrom(rest, tail, "ahead")
                      b == StrstrFrom(rest, tail, "behind")
                  IN  [acc EXCEPT !.ahead = IF a > 0 THEN a ELSE @,
                                  !.behind = IF b > 0 THEN b ELSE @]
             ELSE acc
        ELSE [acc EXCEPT
                !.staged = IF l.c1 # " " THEN @ + 1 ELSE @,
                !.modified = IF l.c2 # " " /\ l.c2 # "?" THEN @ + 1 ELSE @]

\* run_git_status, the body of the parse loop: the line at the head of rest
ParseLine(rest, tail, acc) ==
    LET l == Head(rest)
    IN  IF l.len < 2 THEN acc
        ELSE IF l.c1 = "#" /\ l.c2 = "#"
        THEN IF l.bracket
             THEN LET a == StrstrFrom(rest, tail, "ahead")
                      b == StrstrFrom(rest, tail, "behind")
                  IN  [acc EXCEPT !.ahead = IF a > 0 THEN a ELSE @,
                                  !.behind = IF b > 0 THEN b ELSE @]
             ELSE acc
        ELSE [acc EXCEPT
                !.staged = IF l.c1 # " " /\ l.c1 # "?" THEN @ + 1 ELSE @,
                !.modified = IF l.c2 # " " /\ l.c2 # "?" THEN @ + 1 ELSE @]

\* run_git_status, the parse loop over the lines read
RECURSIVE ParseLoop(_, _, _)
ParseLoop(rest, tail, acc) ==
    IF rest = <<>> THEN acc
    ELSE ParseLoop(Tail(rest), tail, ParseLine(rest, tail, acc))

\* run_git_status after the fork: read, waitpid, parse
ParseStatus ==
    /\ ~gitOut.parsed
    /\ gitOut' = [gitOut EXCEPT
                    !.parsed = TRUE,
                    !.res = ParseLoop(Capture(gitOut.lines, StatusBufCap),
                                      gitOut.tail, ZeroCounts)]
    /\ UNCHANGED <<sessVars, gitVars, sweepVars, mainv, ptree>>

\* ------------------------------------------------------------------- main
\* main: resolve_state runs when cleanup_stale_caches and read_stdin are over
MainResolveState(has_stdin, fields) ==
    /\ spc[1].at = "swept"
    /\ gpc[1].main = "idle"
    /\ ResolveState(1, has_stdin, fields)

\* A plausible slip: the git status is queried without a working directory
MainQueryGitAnyDir ==
    /\ pc[1] = "resolved"
    /\ QueryGit(1)

\* A plausible slip: the git status is resolved before the session state
MainQueryGitEarly ==
    /\ spc[1].at = "swept"
    /\ QueryGit(1)

\* main: state.working_directory[0] && git_read_branch_fast(...) holds, and
\* get_git_status_cached is called for the working directory
MainQueryGit ==
    /\ pc[1] = "resolved"
    /\ loc[1].display.working_directory.len > 0
    /\ QueryGit(1)

\* main: no working directory, or git_read_branch_fast finds no repository
\* there; git_status stays zeroed
MainSkipGit ==
    /\ pc[1] = "resolved"
    /\ gpc[1].main = "idle"
    /\ gpc' = [gpc EXCEPT ![1].main = "git_done"]
    /\ UNCHANGED <<repoPath, index, gitFile, gq, gt, sessVars, sweepVars, mainVars>>

\* main after the git status: build_statusline, the timing suffix and the one
\* write to standard output, in whichever process gets there
MainWrite(role) ==
    /\ role \in {"main", "worker"}
    /\ gpc[1][role] = "git_done"
    /\ gpc' = [gpc EXCEPT ![1][role] = "written"]
    /\ mainv' = [mainv EXCEPT !.out = @ + 1]
    /\ UNCHANGED <<repoPath, index, gitFile, gq, gt, sessVars, sweepVars, ptree, gitOut>>

\* main: return 0; the exit code of the invocation is that of the process
\* that was started
MainExit(role) ==
    /\ role \in {"main", "worker"}
    /\ gpc[1][role] = "written"
    /\ gpc' = [gpc EXCEPT ![1][role] = "exited"]
    /\ mainv' = [mainv EXCEPT !.exit = IF role = "main" THEN 0 ELSE @]
    /\ UNCHANGED <<repoPath, index, gitFile, gq, gt, sessVars, sweepVars, ptree, gitOut>>

\* --------------------------------------------------------- specifications
SessIdle ==
    /\ stateFile = NoFile
    /\ pc = [p \in Procs |-> "idle"]
    /\ loc = [p \in Procs |-> IdleLoc]
    /\ lastRec = ZeroState
    /\ hist = NoHist

GitIdle ==
    /\ gitFile = NoGitFile
    /\ gpc = [q \in Procs |-> IdlePc]
    /\ gq = [q \in Procs |-> IdleQuery]
    /\ gt = [q \in Procs |-> [main |-> IdleTask, worker |-> IdleTask]]

SweepIdle ==
    /\ spc = [p \in Procs |-> IdleSweep]
    /\ sweeps = <<>>
    /\ sweepLog = NoSweepLog

NoMain == [out |-> 0, exit |-> -1]
MainIdle == mainv = NoMain /\ ptree = NoTree /\ gitOut = NoOutput

\* One session, no repository, nothing in the shared-memory directory
SessInit ==
    /\ SessIdle /\ GitIdle /\ SweepIdle /\ MainIdle
    /\ clock = 0
    /\ repoPath = Str(1, GitRepoPathCap - 1)
    /\ index = [exists |-> FALSE, mtime |-> Mtime(0), ver |-> 0]
    /\ sentinel = NoSentinel
    /\ shmFiles = {}
    /\ pidState = [i \in Pids |-> "dead"]

\* Non-overlapping invocations of one session: one runs at a time
SeqNext ==
    \/ \E f \in Payloads : ResolveState(1, TRUE, f)
    \/ ResolveState(1, FALSE, NoFields)
    \/ WriteOpen(1)
    \/ WriteData(1)
    \/ SessionDone(1)
    \/ SessTick

SpecSeq == SessInit /\ [][SeqNext]_vars

\* Non-overlapping invocations of one session, each knowing what the one
\* before it received
RepeatPayloads == {Fields(c, 0, 0, s[1], s[2]) :
                     c \in {0, 100}, s \in {<<EmptyStr, EmptyStr>>, <<Str(1, 20), Str(3, 6)>>}}

RepeatInit ==
    /\ GitIdle /\ SweepIdle /\ MainIdle
    /\ stateFile = NoFile
    /\ pc = [p \in Procs |-> "idle"]
    /\ loc = [p \in Procs |-> IdleLoc]
    /\ lastRec = ZeroState
    /\ hist = [NoHist EXCEPT !.track = TRUE]
    /\ clock = 1000       \* time(NULL) is positive
    /\ repoPath = Str(1, GitRepoPathCap - 1)
    /\ index = [exists |-> FALSE, mtime |-> Mtime(0), ver |-> 0]
    /\ sentinel = NoSentinel
    /\ shmFiles = {}
    /\ pidState = [i \in Pids |-> "dead"]

RepeatNext ==
    \/ \E f \in RepeatPayloads : ResolveState(1, TRUE, f)
    \/ ResolveState(1, FALSE, NoFields)
    \/ WriteOpen(1)
    \/ WriteData(1)
    \/ SessionDone(1)
    \/ SessTick

SpecRepeat == RepeatInit /\ [][RepeatNext]_vars

\* Overlapping invocations of one session, each slot running one invocation
RaceNext ==
    \/ \E p \in Procs : \E f \in RacePayloads : ResolveState(p, TRUE, f)
    \/ \E p \in Procs : ResolveState(p, FALSE, NoFields)
    \/ \E p \in Procs : WriteOpen(p)
    \/ \E p \in Procs : WriteData(p)

SpecRace == SessInit /\ [][RaceNext]_vars

\* Invocations of one session, one after the other, whose writes may stop early
CorruptNext ==
    \/ \E f \in RacePayloads : ResolveState(1, TRUE, f)
    \/ ResolveState(1, FALSE, NoFields)
    \/ WriteOpen(1)
    \/ WriteData(1)
    \/ \E n \in ShortSizes : WriteDataShort(1, n)
    \/ SessionDone(1)

SpecCorrupt == SessInit /\ [][CorruptNext]_vars

\* Invocations of one session that overlap, and then one that runs alone
HealNext ==
    \/ \E p \in Procs : \E f \in RacePayloads : ResolveState(p, TRUE, f)
    \/ \E p \in Procs : ResolveState(p, FALSE, NoFields)
    \/ \E p \in Procs : WriteOpen(p)
    \/ \E p \in Procs : WriteData(p)
    \/ RaceOver

SpecHeal == SessInit /\ [][HealNext]_vars

\* A repository, with or without an index file, and queries of its status
GitInit ==
    /\ SessIdle /\ GitIdle /\ SweepIdle /\ MainIdle
    /\ clock = 0
    /\ repoPath \in RepoPaths
    /\ index \in {[exists |-> e, mtime |-> Mtime(0), ver |-> 0] : e \in BOOLEAN}
    /\ sentinel = NoSentinel
    /\ shmFiles = {}
    /\ pidState = [i \in Pids |-> "dead"]

GitNext ==
    \/ \E q \in Procs :
        \/ QueryGit(q)
        \/ \E ok \in BOOLEAN : ForkBackground(q, ok)
        \/ \E ok \in BOOLEAN : IntermediaryFork(q, ok)
        \/ IntermediaryExit(q)
        \/ WaitBackground(q)
        \/ \E role \in {"main", "worker"} :
            \/ \E ok \in BOOLEAN : RunGitStatus(q, role, ok)
            \/ GitWriteOpen(q, role)
            \/ GitWriteData(q, role)
    \/ RepoChange
    \/ GitTick

SpecGit == GitInit /\ [][GitNext]_vars

\* What an earlier query of the repository left: nothing, or an entry
MainGitFiles(path) ==
    {NoGitFile,
     [size |-> GitCacheSize, rec |-> GitCacheRec(path, Mtime(0), TreeCounts(0)),
      mtime |-> 0]}

\* The shared-memory directory, the processes and the sweep, one invocation
\* after the other
SweepInit ==
    /\ SessIdle /\ SweepIdle /\ MainIdle
    /\ clock = 0
    /\ repoPath = Str(1, GitRepoPathCap - 1)
    /\ gitFile \in MainGitFiles(repoPath)
    /\ gpc = [q \in Procs |-> IdlePc]
    /\ gq = [q \in Procs |-> IdleQuery]
    /\ gt = [q \in Procs |-> [main |-> IdleTask, worker |-> IdleTask]]
    /\ index = [exists |-> FALSE, mtime |-> Mtime(0), ver |-> 0]
    /\ sentinel \in {NoSentinel, [exists |-> TRUE, mtime |-> 0, mine |-> FALSE]}
    /\ shmFiles = {}
    /\ pidState \in {f \in [Pids -> PidStates] : f[0] = "dead"}

SweepNext ==
    \/ SweepCheck(1)
    \/ SweepTouch(1)
    \/ \E ok \in BOOLEAN : SweepPass(1, ok)
    \/ SweepDone(1)
    \/ \E pid \in Pids : CreateCache(pid)
    \/ \E pid \in Pids : ProcExit(pid)
    \/ SweepTick

SpecSweep == SweepInit /\ [][SweepNext]_vars

\* Invocations that overlap, each one at its own place in the sweep
SweepRaceNext ==
    \/ \E p \in Procs : SweepCheck(p)
    \/ \E p \in Procs : SweepTouch(p)
    \/ \E p \in Procs : \E ok \in BOOLEAN : SweepPass(p, ok)
    \/ \E pid \in Pids : CreateCache(pid)
    \/ SweepTick

SpecSweepRace == SweepInit /\ [][SweepRaceNext]_vars

\* A repository that has stopped changing, with its index file, and what the
\* queries made before the last change left of its entry
FreshInit ==
    /\ SessIdle /\ SweepIdle /\ MainIdle
    /\ repoPath \in RepoPaths
    /\ gitFile \in MainGitFiles(repoPath)
    /\ gpc = [q \in Procs |-> IdlePc]
    /\ gq = [q \in Procs |-> IdleQuery]
    /\ gt = [q \in Procs |-> [main |-> IdleTask, worker |-> IdleTask]]
    /\ clock \in {GitTickMs, 3 * GitTickMs}
    /\ index \in {[exists |-> TRUE, mtime |-> Mtime(v * GitTickMs), ver |-> v] :
                     v \in {0, 1}}
    /\ sentinel = NoSentinel
    /\ shmFiles = {}
    /\ pidState = [i \in Pids |-> "dead"]

\* Invocations for the repository, one after the other, for ever; every fork
\* succeeds and git status runs
FreshInvocation ==
    \/ QueryGit(1)
    \/ ForkBackground(1, TRUE)
    \/ IntermediaryFork(1, TRUE)
    \/ IntermediaryExit(1)
    \/ WaitBackground(1)
    \/ \E role \in {"main", "worker"} :
        \/ RunGitStatus(1, role, TRUE)
        \/ GitWriteOpen(1, role)
        \/ GitWriteData(1, role)
    \/ QueryOver(1)

FreshNext == FreshInvocation \/ GitTick

\* Invocations keep occurring and every process they start runs to its end
SpecFresh == FreshInit /\ [][FreshNext]_vars /\ WF_vars(FreshInvocation)

\* An unchanged process tree above the invocations, and the resolutions of
\* the session identifier they make
PidInit ==
    /\ SessIdle /\ GitIdle /\ SweepIdle
    /\ mainv = NoMain /\ gitOut = NoOutput
    /\ ptree \in Trees
    /\ clock = 0
    /\ repoPath = Str(1, GitRepoPathCap - 1)
    /\ index = [exists |-> FALSE, mtime |-> Mtime(0), ver |-> 0]
    /\ sentinel = NoSentinel
    /\ shmFiles = {}
    /\ pidState = [i \in Pids |-> "dead"]

PidNext == GetCachePath

SpecPid == PidInit /\ [][PidNext]_vars

\* Repository paths that share one cache file name (their hashes collide):
\* two contents, each 255 or 256 bytes long
CollidePaths == {Str(t, n) : t \in {1, 2}, n \in {GitRepoPathCap - 1, GitRepoPathCap}}

\* The counts of the other repository, which the queried one never has
OtherCounts == [modified |-> 9, staged |-> 9, ahead |-> 9, behind |-> 9]

\* A query of one repository finds the entry a query of another one wrote
CollideInit ==
    /\ SessIdle /\ SweepIdle /\ MainIdle
    /\ repoPath \in CollidePaths
    /\ clock \in {GitTickMs, 3 * GitTickMs}
    /\ index \in {[exists |-> e, mtime |-> Mtime(v * GitTickMs), ver |-> v] :
                     e \in BOOLEAN, v \in {0, 1}}
    /\ \E other \in CollidePaths \ {repoPath} :
          gitFile = [size |-> GitCacheSize,
                     rec |-> GitCacheRec(other, Mtime(0), OtherCounts),
                     mtime |-> 0]
    /\ gpc = [q \in Procs |-> IdlePc]
    /\ gq = [q \in Procs |-> IdleQuery]
    /\ gt = [q \in Procs |-> [main |-> IdleTask, worker |-> IdleTask]]
    /\ sentinel = NoSentinel
    /\ shmFiles = {}
    /\ pidState = [i \in Pids |-> "dead"]

CollideNext ==
    \/ QueryGit(1)
    \/ \E ok \in BOOLEAN : ForkBackground(1, ok)
    \/ \E ok \in BOOLEAN : IntermediaryFork(1, ok)
    \/ IntermediaryExit(1)
    \/ WaitBackground(1)
    \/ \E role \in {"main", "worker"} :
        \/ \E ok \in BOOLEAN : RunGitStatus(1, role, ok)
        \/ GitWriteOpen(1, role)
        \/ GitWriteData(1, role)
    \/ GitTick

SpecCollide == CollideInit /\ [][CollideNext]_vars

\* Overlapping invocations for a repository that has an entry or none
OverlapNext ==
    \/ \E q \in Procs :
        \/ QueryGit(q)
        \/ \E ok \in BOOLEAN : ForkBackground(q, ok)
        \/ \E ok \in BOOLEAN : IntermediaryFork(q, ok)
        \/ IntermediaryExit(q)
        \/ WaitBackground(q)
        \/ \E role \in {"main", "worker"} :
            \/ \E ok \in BOOLEAN : RunGitStatus(q, role, ok)
            \/ GitWriteOpen(q, role)
            \/ GitWriteData(q, role)
    \/ GitTick

SpecOverlap == FreshInit /\ [][OverlapNext]_vars

\* An output of git status, and the parse of it
ParseInit ==
    /\ SessIdle /\ GitIdle /\ SweepIdle
    /\ mainv = NoMain /\ ptree = NoTree
    /\ \E o \in Outputs : \E t \in Tails :
          gitOut = [lines |-> o, tail |-> t, parsed |-> FALSE, res |-> ZeroCounts]
    /\ clock = 0
    /\ repoPath = Str(1, GitRepoPathCap - 1)
    /\ index = [exists |-> FALSE, mtime |-> Mtime(0), ver |-> 0]
    /\ sentinel = NoSentinel
    /\ shmFiles = {}
    /\ pidState = [i \in Pids |-> "dead"]

ParseNext == ParseStatus

SpecParse == ParseInit /\ [][ParseNext]_vars

\* The payloads of the whole-invocation specification
MainPayloads == {Fields(c, 0, 0, d, EmptyStr) :
                    c \in {0, 100}, d \in {EmptyStr, Str(1, 20)}}

\* What an earlier invocation of the session left of its record: nothing, its
\* first bytes, or all of it
MainStateFiles ==
    LET r == MergeState(ZeroState, Fields(100, 10, 1, Str(1, 20), Str(3, 6)), 0)
    IN  {NoFile, FullFile(r)} \cup {[size |-> n, rec |-> r] : n \in ShortSizes}

\* One invocation of main, from its start to its exit, in every environment:
\* a session cache absent, short or whole; a git cache entry absent, young or
\* old; an index absent, unchanged or changed; a sentinel absent or fresh
MainInit ==
    /\ stateFile \in MainStateFiles
    /\ lastRec = Persisted(stateFile)
    /\ pc = [p \in Procs |-> "idle"]
    /\ loc = [p \in Procs |-> IdleLoc]
    /\ hist = NoHist
    /\ repoPath \in RepoPaths
    /\ gitFile \in MainGitFiles(repoPath)
    /\ gpc = [q \in Procs |-> IdlePc]
    /\ gq = [q \in Procs |-> IdleQuery]
    /\ gt = [q \in Procs |-> [main |-> IdleTask, worker |-> IdleTask]]
    /\ SweepIdle /\ MainIdle
    /\ clock \in {GitTickMs, 3 * GitTickMs}
    /\ index \in {[exists |-> e, mtime |-> Mtime(v * GitTickMs), ver |-> v] :
                     e \in BOOLEAN, v \in {0, 1}}
    /\ sentinel \in {NoSentinel, [exists |-> TRUE, mtime |-> 0, mine |-> TRUE]}
    /\ shmFiles = {}
    /\ pidState = [i \in Pids |-> "dead"]

\* The steps of the process that was started, and the end of main in
\* whichever process returns from get_git_status_cached
MainProc ==
    \/ SweepCheck(1)
    \/ SweepTouch(1)
    \/ \E ok \in BOOLEAN : SweepPass(1, ok)
    \/ \E f \in MainPayloads : MainResolveState(TRUE, f)
    \/ MainResolveState(FALSE, NoFields)
    \/ WriteOpen(1)
    \/ WriteData(1)
    \/ MainQueryGit
    \/ MainSkipGit
    \/ \E ok \in BOOLEAN : ForkBackground(1, ok)
    \/ WaitBackground(1)
    \/ \E ok \in BOOLEAN : RunGitStatus(1, "main", ok)
    \/ GitWriteOpen(1, "main")
    \/ GitWriteData(1, "main")
    \/ \E role \in {"main", "worker"} : MainWrite(role)
    \/ \E role \in {"main", "worker"} : MainExit(role)

\* The steps of the intermediary it forks when the entry is stale
MainIntermediary ==
    \/ \E ok \in BOOLEAN : IntermediaryFork(1, ok)
    \/ IntermediaryExit(1)

\* The steps of the worker the intermediary forks, up to its _exit(0)
MainWorker ==
    \/ \E ok \in BOOLEAN : RunGitStatus(1, "worker", ok)
    \/ GitWriteOpen(1, "worker")
    \/ GitWriteData(1, "worker")

MainNext == MainProc \/ MainIntermediary \/ MainWorker

\* Every system call returns and the status subprocess terminates, so the
\* process that was started and its intermediary keep taking steps
SpecMain ==
    MainInit /\ [][MainNext]_vars /\ WF_vars(MainProc) /\ WF_vars(MainIntermediary)

\* ------------------------------------------------- session cache: claims
NumericGeq(a, b) == \A k \in NumFields : a[k] >= b[k]

Wrote(p) == pc[p] = "resolved" /\ loc[p].has_stdin
            /\ WriteNeeded(loc[p].new_cache, loc[p].cached)

\* C1: across non-overlapping invocations of one session, with or without a
\* payload, every numeric field of the persisted record after an invocation is
\* at least its value before that invocation.
C1_PersistedMonotone ==
    pc[1] = "resolved" =>
        /\ stateFile.size \in {-1, CachedStateSize}
        /\ NumericGeq(Persisted(stateFile), loc[1].before)

\* An invocation whose payload carried a lower, non-zero cost than the record
\* held has written the record back.
C1_Witness ==
    /\ Wrote(1)
    /\ loc[1].fields.total_cost_usd > 0
    /\ loc[1].fields.total_cost_usd < loc[1].before.cost_usd
    /\ stateFile = FullFile(loc[1].new_cache)

\* C2: after an invocation with a payload the displayed value of each numeric
\* field is the maximum of the cached value and the incoming value.
C2_DisplayIsMax ==
    (pc[1] = "resolved" /\ loc[1].has_stdin) =>
        LET d == loc[1].display
            c == loc[1].cached
            f == loc[1].fields
        IN  /\ d.cost_usd = Max(c.cost_usd, f.total_cost_usd)
            /\ d.lines_added = Max(c.lines_added, f.total_lines_added)
            /\ d.lines_removed = Max(c.lines_removed, f.total_lines_removed)
            /\ d.total_duration_ms = Max(c.duration_ms, f.total_duration_ms)
            /\ d.used_percent = Max(c.used_percent, f.used_percentage)
            /\ d.context_size = Max(c.context_size, f.context_window_size)

\* C10 as stated: under arbitrary interleaving no numeric field of the
\* persisted record decreases from one complete record to the next.
C10_NeverDecreases == [][NumericGeq(lastRec', lastRec)]_vars

\* C10 amended: every record written is field-wise at least the record its
\* writer read, and a field decreases across a write only if the writer read
\* the file while it was truncated or another invocation opened or wrote the
\* file between the writer's read and its write.
C10_WrittenAtLeastRead ==
    [][\A p \in Procs :
          (pc[p] = "rs_write" /\ pc'[p] = "resolved") =>
              /\ NumericGeq(lastRec', loc[p].cached)
              /\ loc[p].alone => NumericGeq(lastRec', lastRec)]_vars

\* A lost update: q wrote a higher cost, then p, which had read before q wrote,
\* wrote a lower one over it.
C10_Witness ==
    \E p, q \in Procs :
        /\ p # q /\ Wrote(p) /\ Wrote(q)
        /\ ~loc[p].alone
        /\ lastRec = loc[p].new_cache
        /\ loc[q].new_cache.cost_usd > lastRec.cost_usd

\* A payload of the race is missing from the record the race left behind
LostUpdate == \E k \in NumFields : hist.raced[k] < hist.delivered[k]
Healed == hist.phase = "after" /\ pc[1] = "resolved" /\ loc[1].has_stdin

\* C11 as stated: after a race that lost an update, once the next invocation
\* that runs alone has completed, every numeric field of the persisted record
\* is the largest value any payload of the session has carried.
C11_NextInvocationRestoresMax ==
    (Healed /\ LostUpdate) =>
        \A k \in NumFields : Persisted(stateFile)[k] = hist.delivered[k]

\* C11, amended: after such a race, once the next invocation that runs alone
\* has completed, every numeric field of the persisted record is the larger of
\* what the race left in the file and what this invocation's payload carries;
\* it is the largest value delivered so far exactly when one of those two is.
C11_NextInvocationMergesWhatIsLeft ==
    (Healed /\ LostUpdate) =>
        \A k \in NumFields :
            /\ Persisted(stateFile)[k] = Max(hist.raced[k], Incoming(loc[1].fields)[k])
            /\ Persisted(stateFile)[k] <= hist.delivered[k]
            /\ Incoming(loc[1].fields)[k] = hist.delivered[k]
                   => Persisted(stateFile)[k] = hist.delivered[k]

\* The lost update has been made good: the payload of the invocation that ran
\* alone carried the largest values, and the file holds them again
C11_Witness ==
    /\ Healed /\ LostUpdate
    /\ Persisted(stateFile) # hist.raced
    /\ \A k \in NumFields : Persisted(stateFile)[k] = hist.delivered[k]

\* C13: an invocation that finds a file whose size is not the record's size
\* resolves and merges as if there were no file: the record it takes as read
\* is all-zero and empty, and so the display and the record to write are what
\* the payload alone gives.
C13_WrongSizeIsAbsent ==
    (pc[1] # "idle" /\ loc[1].readSize \notin {-1, CachedStateSize}) =>
        /\ loc[1].cached = ZeroState
        /\ loc[1].display =
               ResolveDisplay(ZeroState, loc[1].has_stdin, loc[1].fields, NowSec)
        /\ loc[1].new_cache =
               IF loc[1].has_stdin THEN MergeState(ZeroState, loc[1].fields, NowSec)
               ELSE ZeroState

\* C14: an invocation that got no payload shows, field for field, the record
\* it read (all-zero and empty when there is no file), and leaves the file as
\* it found it.
C14_NoPayloadIsCacheOnly ==
    (pc[1] # "idle" /\ ~loc[1].has_stdin) =>
        /\ pc[1] = "resolved"
        /\ loc[1].cached = loc[1].before
        /\ loc[1].display.cost_usd = loc[1].before.cost_usd
        /\ loc[1].display.lines_added = loc[1].before.lines_added
        /\ loc[1].display.lines_removed = loc[1].before.lines_removed
        /\ loc[1].display.total_duration_ms = loc[1].before.duration_ms
        /\ loc[1].display.used_percent = loc[1].before.used_percent
        /\ loc[1].display.context_size = loc[1].before.context_size
        /\ loc[1].display.last_update_sec = loc[1].before.last_update_sec
        /\ loc[1].display.working_directory = loc[1].before.working_directory
        /\ loc[1].display.model = loc[1].before.model
        /\ stateFile.size = loc[1].readSize
        /\ Persisted(stateFile) = loc[1].before

\* An invocation without payload has shown a record written a second earlier
C14_Witness ==
    /\ pc[1] = "resolved" /\ ~loc[1].has_stdin
    /\ loc[1].display.cost_usd > 0
    /\ loc[1].display.working_directory.len > 0
    /\ loc[1].display.last_update_sec < NowSec

\* C16: a record written for the session and then read back for the same
\* session, nobody having written in between, is read successfully and is
\* equal to the record written, field for field.
C16_RoundTrip ==
    [][(pc[1] = "idle" /\ pc'[1] # "idle" /\ stateFile.size = CachedStateSize) =>
           /\ ReadCachedStateOk(stateFile)
           /\ loc'[1].cached = lastRec]_vars

\* A record with counters, a model name and a working directory cut to the
\* capacity of its field has been written and read back
C16_Witness ==
    /\ pc[1] = "resolved"
    /\ loc[1].readSize = CachedStateSize
    /\ loc[1].cached.cost_usd > 0
    /\ loc[1].cached.model.len > 0
    /\ loc[1].cached.working_directory.len = CachedDirCap - 1

\* C20 as stated: the record persisted by an invocation with a payload has in
\* each numeric field the larger of the previous and the incoming value, and
\* in each string field the incoming string when it is non-empty, the previous
\* string otherwise.
C20_PersistedIsMerge ==
    (pc[1] = "resolved" /\ loc[1].has_stdin) =>
        /\ \A k \in NumFields :
              Persisted(stateFile)[k] = Max(loc[1].before[k], Incoming(loc[1].fields)[k])
        /\ Persisted(stateFile).working_directory =
              IF loc[1].fields.current_dir.len > 0 THEN loc[1].fields.current_dir
              ELSE loc[1].before.working_directory
        /\ Persisted(stateFile).model =
              IF loc[1].fields.display_name.len > 0 THEN loc[1].fields.display_name
              ELSE loc[1].before.model

\* C20, amended: as C20, the incoming string being cut to what the field
\* holds, 255 bytes of the working directory and 63 of the model name.
C20_PersistedIsMergeCut ==
    (pc[1] = "resolved" /\ loc[1].has_stdin) =>
        /\ \A k \in NumFields :
              Persisted(stateFile)[k] = Max(loc[1].before[k], Incoming(loc[1].fields)[k])
        /\ Persisted(stateFile).working_directory =
              IF loc[1].fields.current_dir.len > 0
              THEN Str(loc[1].fields.current_dir.tag,
                       Min(loc[1].fields.current_dir.len, 255))
              ELSE loc[1].before.working_directory
        /\ Persisted(stateFile).model =
              IF loc[1].fields.display_name.len > 0
              THEN Str(loc[1].fields.display_name.tag,
                       Min(loc[1].fields.display_name.len, 63))
              ELSE loc[1].before.model

\* An invocation has merged a payload into a record that was there: one
\* counter kept from the record, one string taken from the payload and cut
C20_Witness ==
    /\ pc[1] = "resolved" /\ loc[1].has_stdin
    /\ loc[1].before.cost_usd > loc[1].fields.total_cost_usd
    /\ loc[1].fields.total_cost_usd > 0
    /\ loc[1].fields.current_dir.len > 255
    /\ loc[1].before.model.len > 0 /\ loc[1].fields.display_name.len = 0
    /\ Persisted(stateFile).model = loc[1].before.model

\* C21: an invocation opens the session cache file for writing exactly when
\* it has a payload and the merged record differs from the record it read;
\* otherwise the file is left as it was, and nothing but the write of an
\* invocation that decided to write changes the file.
C21_WriteOnlyIfChanged ==
    [][/\ (pc[1] = "idle" /\ pc'[1] # "idle") =>
            /\ (pc'[1] = "rs_open") <=>
                   (loc'[1].has_stdin /\ loc'[1].new_cache # Persisted(stateFile))
            /\ stateFile' = stateFile
       /\ stateFile' # stateFile => pc[1] \in {"rs_open", "rs_write"}]_vars

\* An invocation whose payload carried values merged them into the very
\* record it had read, and went on without writing
C21_Witness ==
    /\ pc[1] = "resolved" /\ loc[1].has_stdin
    /\ loc[1].fields.total_cost_usd > 0
    /\ loc[1].fields.current_dir # EmptyStr
    /\ loc[1].readSize = CachedStateSize
    /\ loc[1].new_cache = loc[1].cached
    /\ stateFile = FullFile(loc[1].cached)

\* C30: a counter the payload carries as zero, or does not carry, is resolved
\* to the cached value, for each of cost, lines added, lines removed,
\* duration, used percentage and context window size.
C30_ZeroIsAbsent ==
    (pc[1] = "resolved" /\ loc[1].has_stdin) =>
        LET f == loc[1].fields
            d == loc[1].display
            c == loc[1].before
        IN  /\ f.total_cost_usd = 0 => d.cost_usd = c.cost_usd
            /\ f.total_lines_added = 0 => d.lines_added = c.lines_added
            /\ f.total_lines_removed = 0 => d.lines_removed = c.lines_removed
            /\ f.total_duration_ms = 0 => d.total_duration_ms = c.duration_ms
            /\ f.used_percentage = 0 => d.used_percent = c.used_percent
            /\ f.context_window_size = 0 => d.context_size = c.context_size

\* A payload without cost and without the four other counters, but with
\* lines added, met a record that held a cost and those counters
C30_Witness ==
    /\ pc[1] = "resolved" /\ loc[1].has_stdin
    /\ loc[1].fields.total_cost_usd = 0 /\ loc[1].before.cost_usd > 0
    /\ loc[1].fields.used_percentage = 0 /\ loc[1].before.used_percent > 0
    /\ loc[1].fields.total_lines_added > 0
    /\ loc[1].display.cost_usd = loc[1].before.cost_usd

\* C23: whatever the interleaving of an invocation that writes the session
\* cache file with one that reads it, the reader finds the whole previous
\* record (or no file, before the first write) or the whole new record, never
\* an empty or partly written file.
C23_ReaderSeesWholeRecord ==
    \A p \in Procs :
        pc[p] # "idle" => loc[p].readSize \in {-1, CachedStateSize}

\* ----------------------------------------------------- git cache: claims
Started(q) == gpc[q].main # "idle"
Returned(q) == gpc[q].main = "git_done"
WrittenMtime(q) == [sec |-> gq[q].written.index_mtime_sec,
                    nsec |-> gq[q].written.index_mtime_nsec]

\* C3: a query that finds the entry Stale returns exactly the counts stored in
\* the entry, and nothing it waits for waits for the worker: its fork can go
\* ahead, the intermediary can exit whatever the worker is doing, and once the
\* intermediary has exited the caller's wait can end.
C3_StaleReturnsCached ==
    \A q \in Procs :
        (Started(q) /\ gq[q].state = "STALE") =>
            /\ Returned(q) => gq[q].result = CountsOf(gq[q].cache)
            /\ gt[q].main = IdleTask
            /\ gpc[q].main = "stale_fork" => ENABLED ForkBackground(q, TRUE)
            /\ gpc[q].inter = "exiting" => ENABLED IntermediaryExit(q)
            /\ (gpc[q].main = "stale_wait" /\ gpc[q].inter = "zombie")
                   => ENABLED WaitBackground(q)

\* A Stale query has returned its cached, non-zero counts while its worker has
\* not yet run the status subprocess
C3_Witness ==
    \E q \in Procs :
        /\ gq[q].state = "STALE" /\ Returned(q)
        /\ gpc[q].worker = "run"
        /\ gq[q].result # ZeroCounts

\* C4: a query that finds the index modification time changed causes exactly
\* one write of the entry, by its detached worker, and once the worker has
\* completed that write holds the counts the worker's status run computed.
C4_RefreshWritesOnce ==
    \A q \in Procs :
        (Started(q) /\ gq[q].mtimeDiffers) =>
            /\ gq[q].writes <= 1
            /\ gpc[q].worker = "done" =>
                /\ gq[q].writes = 1
                /\ CountsOf(gq[q].written) =
                       IF gt[q].worker.ranOk THEN TreeCounts(gt[q].worker.ranVer)
                       ELSE ZeroCounts
                /\ gt[q].worker.ranVer >= gq[q].startVer

\* The worker of such a query has completed, and what it wrote differs from
\* the counts the query returned
C4_Witness ==
    \E q \in Procs :
        /\ gq[q].mtimeDiffers /\ Returned(q)
        /\ gpc[q].worker = "done"
        /\ gt[q].worker.ranOk
        /\ CountsOf(gq[q].written) # gq[q].result

\* C5: a query that finds the entry Valid returns the cached counts at once,
\* forks nothing, runs no status subprocess and writes nothing.
C5_ValidNoSpawnNoWrite ==
    \A q \in Procs :
        (Started(q) /\ gq[q].state = "VALID") =>
            /\ Returned(q)
            /\ gq[q].result = CountsOf(gq[q].cache)
            /\ gq[q].forks = 0 /\ gq[q].calls = 0 /\ gq[q].writes = 0
            /\ gpc[q].inter = "none" /\ gpc[q].worker = "none"

C5_Witness ==
    \E q \in Procs :
        /\ gq[q].state = "VALID" /\ Returned(q)
        /\ gq[q].result # ZeroCounts

\* C6: from no entry, two queries of the repository, the second begun after
\* the first returned and within the time-to-live, the index present and
\* unchanged, run the status subprocess once in total: the first is a Miss,
\* the second Valid.
C6_TwoQueriesOneStatusRun ==
    \A q, r \in Procs :
        ( /\ r \in gq[q].after /\ Returned(q) /\ Returned(r)
          /\ \A o \in Procs \ {q, r} : ~Started(o)
          /\ gq[r].startNoFile /\ gq[r].startIdx
          /\ gq[q].startVer = gq[r].startVer
          /\ gq[q].startClock - gq[r].startClock <= GIT_CACHE_TTL_MS )
        => /\ gq[r].state = "NONE"
           /\ gq[q].state = "VALID"
           /\ gq[q].calls + gq[r].calls = 1

C12_EventuallyValid ==
    <>(/\ gpc[1].main = "git_done"
       /\ gq[1].state = "VALID"
       /\ gq[1].result = TreeCounts(index.ver))

\* C26: a query of one repository never returns the counts stored for
\* another one whose path has the same hash: it classifies that entry Miss.
C26_NoForeignCounts ==
    \A q \in Procs :
        /\ gq[q].result # OtherCounts
        /\ (Started(q) /\ gq[q].cache.modified = OtherCounts.modified)
              => gq[q].state = "NONE"

\* C27: the counts an entry stores and the index modification time it stores
\* were observed from the same state of the index, so that a query that finds
\* the entry Valid is served the counts of the state the time belongs to, even
\* if the index changes while the recomputation is in progress.
C27_CountsAndMtimeSameState ==
    \A q \in Procs : \A role \in {"main", "worker"} :
        (gt[q][role].statOk /\ gt[q][role].ranOk)
            => gt[q][role].ranVer = gt[q][role].statVer

\* C28: at any time at most one refresh worker of the repository is running:
\* an invocation that finds the entry stale while a refresh is in progress
\* launches no other worker.
C28_OneWorkerAtATime ==
    Cardinality({q \in Procs : gpc[q].worker \notin {"none", "done"}}) <= 1

\* C19: a query classifies the entry Miss when the file is absent, has not the
\* size of a record or stores another path than the one queried; otherwise
\* Valid exactly when the entry is at most 5000 ms old and the index has the
\* modification time stored, seconds and nanoseconds; otherwise Stale.
C19_Classification ==
    [][\A q \in Procs :
          (gpc[q].main = "idle" /\ gpc'[q].main # "idle") =>
              gq'[q].state =
                  IF \/ gitFile.size = -1
                     \/ gitFile.size # GitCacheSize
                     \/ gitFile.rec.repo_path # repoPath
                  THEN "NONE"
                  ELSE IF /\ clock - gitFile.mtime <= 5000
                          /\ index.exists
                          /\ index.mtime.sec = gitFile.rec.index_mtime_sec
                          /\ index.mtime.nsec = gitFile.rec.index_mtime_nsec
                  THEN "VALID"
                  ELSE "STALE"]_vars

\* One query found no entry and another found a stale one: the index had
\* changed before the time-to-live elapsed, or the entry was past its
\* time-to-live while the stored modification time still matched
C19_Witness ==
    \E q, r \in Procs :
        /\ Returned(q) /\ gq[q].state = "NONE"
        /\ Returned(r) /\ gq[r].state = "STALE"
        /\ \/ gq[r].mtimeDiffers /\ gq[r].startClock <= GIT_CACHE_TTL_MS
           \/ ~gq[r].mtimeDiffers /\ gq[r].startIdx
              /\ gq[r].startClock > GIT_CACHE_TTL_MS

\* ---------------------------------------------- session identifier: claims
\* C22: the identifier resolved is the id of the parent's parent when the
\* parent's status file can be opened and read and holds its PPid field, and
\* the id of the parent otherwise; repeated resolutions under an unchanged
\* process tree give the same identifier.
C22_GrandparentOrParent ==
    \A i \in 1..Len(ptree.ids) :
        /\ ptree.ids[i] = IF ptree.proc = "status" THEN ptree.gpp ELSE ptree.ppid
        /\ ptree.ids[i] = ptree.ids[1]

\* ----------------------------------------------------------- main: claims
\* C15: every invocation of main, whatever its input, its session cache, the
\* repository, the state of the git cache entry and the outcome of the status
\* subprocess and of the forks, comes to its end having written exactly one
\* status line to standard output, and exits with code zero.
C15_OneLineExitZero ==
    <>[](gpc[1].main = "exited" /\ mainv.out = 1 /\ mainv.exit = 0)

\* An invocation without input that found a stale entry and could not fork
\* the refresh has written its line and exited
C15_Witness ==
    /\ gpc[1].main = "exited" /\ mainv.out = 1 /\ mainv.exit = 0
    /\ ~loc[1].has_stdin
    /\ gq[1].state = "STALE" /\ gq[1].forks = 1 /\ gpc[1].inter = "none"

\* C17: when the status subprocess cannot be spawned or executed, or writes
\* nothing, the query yields modified = staged = ahead = behind = 0, and the
\* invocation goes on to write its status line.
C17_FailedStatusIsZero ==
    /\ \A role \in {"main", "worker"} :
          (gq[1].calls > 0 /\ gpc[1][role] \notin {"none", "idle", "run"}
              /\ ~gt[1][role].ranOk)
          => gt[1][role].counts = ZeroCounts
    /\ (gq[1].state = "NONE" /\ gq[1].calls = 1 /\ ~gt[1].main.ranOk) =>
          /\ gq[1].result = ZeroCounts
          /\ gpc[1].main = "git_done" => ENABLED MainWrite("main")
          /\ gpc[1].main = "exited" => mainv.out = 1

\* The status subprocess of a query that found no entry failed, and the
\* invocation has written its line
C17_Witness ==
    /\ gq[1].state = "NONE" /\ gq[1].calls = 1 /\ ~gt[1].main.ranOk
    /\ index.ver > 0
    /\ gpc[1].main = "exited" /\ mainv.out = 1

\* C25: when the main process has exited, the intermediary it forked on a
\* stale entry and the status subprocess it forked on a miss have been waited
\* for; the worker is forked by the intermediary, never by the main process,
\* and a worker that has finished has reaped its own status subprocess.
C25_NoLingeringChildren ==
    [][/\ gpc'[1].main = "exited" =>
            /\ gpc'[1].inter \in {"none", "reaped"}
            /\ gt'[1].main.child \in {"none", "reaped"}
       /\ gpc'[1].worker = "done" => gt'[1].worker.child \in {"none", "reaped"}
       /\ (gpc[1].worker = "none" /\ gpc'[1].worker # "none") =>
            /\ gpc[1].inter = "fork"
            /\ gpc'[1].main = gpc[1].main]_vars

\* The main process has exited after reaping the intermediary, while the
\* worker, which the intermediary forked, still runs
C25_Witness ==
    /\ gpc[1].main = "exited"
    /\ gq[1].state = "STALE"
    /\ gpc[1].inter = "reaped"
    /\ gpc[1].worker = "run"

\* C29: within one invocation the sweep, the resolution of the session state
\* (read, merge, write), the resolution of the git status and the output
\* follow each other in this order without overlap; the write of the session
\* cache precedes the read of the git cache.
C29_StepsInOrder ==
    [][/\ spc'[1] # spc[1] => (pc[1] = "idle" /\ gpc[1].main = "idle")
       /\ pc'[1] # pc[1] => (spc[1].at = "swept" /\ gpc[1].main = "idle")
       /\ gpc'[1].main # gpc[1].main => (spc[1].at = "swept" /\ pc[1] = "resolved")
       /\ mainv'.out # mainv.out => gpc[1].main = "git_done"]_vars

\* An invocation that ran the sweep, wrote the session cache and queried the
\* git cache has written its line and exited
C29_Witness ==
    /\ gpc[1].main = "exited" /\ mainv.out = 1
    /\ sweepLog.ran
    /\ loc[1].has_stdin /\ loc[1].new_cache # loc[1].cached
    /\ stateFile = FullFile(loc[1].new_cache)
    /\ gq[1].state = "STALE"

\* C31: an invocation whose resolved working directory is empty, or holds no
\* repository, goes past the git status without reading or writing the git
\* cache file, without a status subprocess, an intermediary or a worker, and
\* writes its line all the same.
C31_NoRepositoryNoGit ==
    [][/\ (/\ gpc[1].main = "idle" /\ gpc'[1].main # "idle"
           /\ loc[1].display.working_directory.len = 0)
          => (gpc'[1].main = "git_done" /\ gitFile' = gitFile /\ gq' = gq /\ gt' = gt)
       /\ (gpc[1].main \in {"git_done", "written", "exited"} /\ gq[1] = IdleQuery)
          => /\ gitFile' = gitFile /\ gq' = gq /\ gt' = gt
             /\ gpc'[1].inter = "none" /\ gpc'[1].worker = "none"
             /\ gpc'[1].main = "exited" => mainv'.out = 1]_vars

\* An invocation with a working directory that holds no repository has
\* written its line and exited; the git cache file of an earlier query is
\* where it was
C31_Witness ==
    /\ gpc[1].main = "exited" /\ mainv.out = 1
    /\ gq[1] = IdleQuery
    /\ gt[1].main = IdleTask
    /\ loc[1].display.working_directory.len > 0
    /\ gitFile.size = GitCacheSize

\* --------------------------------------------------------- sweep: claims
\* C8: a pass deletes every session cache file whose (positive) process id
\* names no process, and keeps every file whose process id names a process,
\* one the sweeping user may not signal included.
C8_SweepDeletesOnlyDead ==
    sweepLog.ran =>
        \A pid \in sweepLog.before \ {0} :
            (pid \in sweepLog.after) <=> (sweepLog.status[pid] # "dead")

\* C9: of invocations that do not overlap, two that run the pass started at
\* least a sweep interval apart, counted in whole seconds as the program
\* counts them.
C9_OnePassPerInterval ==
    \A i, j \in 1..Len(sweeps) :
        i < j => sweeps[j] \div 1000 - sweeps[i] \div 1000 >= CLEANUP_INTERVAL_S


\* C18: no step of a sweep deletes or changes the git status cache file,
\* whichever processes are alive or dead.
C18_SweepKeepsGitCache ==
    [][(\E p \in Procs : spc'[p] # spc[p]) => gitFile' = gitFile]_vars

\* A pass ran and deleted a session cache file while a git status cache file,
\* whose name ends in digits that name no process, was in the directory
C18_Witness ==
    /\ sweepLog.ran
    /\ sweepLog.after # sweepLog.before
    /\ gitFile.size = GitCacheSize
    /\ sweepLog.status[HashTail(repoPath)] = "dead"

\* C24: while an invocation that found the sweep due is enumerating (it has
\* touched the sentinel before), an invocation that makes its gate check
\* within the interval, counted in whole seconds from the start of the first,
\* performs no sweep.
C24_TouchBeforeEnumerate ==
    [][\A p, q \in Procs :
          (/\ p # q
           /\ spc[p].at = "opendir"
           /\ spc[q].at = "idle" /\ spc'[q].at # "idle"
           /\ clock \div 1000 - spc[p].now \div 1000 < CLEANUP_INTERVAL_S)
          => spc'[q].at = "swept"]_vars

\* ------------------------------------------------- git status output: claims
\* C32: for every output of git status, the staged count is the number of
\* lines, other than headers and at least two bytes long, whose first column
\* is neither blank nor '?', and the modified count the number of those whose
\* second column is neither blank nor '?'; what lies behind the first 4096
\* bytes of the output counts as if it had not been written.
C32_CountsAreColumns ==
    LET lines == gitOut.lines
        \* where line i starts, in bytes
        RECURSIVE StartOf(_)
        StartOf(i) == IF i = 1 THEN 0 ELSE StartOf(i - 1) + lines[i - 1].len + 1
        \* the bytes of line i among the first StatusBufCap of the output
        BytesOf(i) == Max(0, Min(lines[i].len, StatusBufCap - StartOf(i)))
        \* the lines that count
        Counted == {i \in 1..Len(lines) :
                      /\ BytesOf(i) >= 2
                      /\ ~(lines[i].c1 = "#" /\ lines[i].c2 = "#")}
    IN  gitOut.parsed =>
          /\ gitOut.res.staged =
               Cardinality({i \in Counted : lines[i].c1 \notin {" ", "?"}})
          /\ gitOut.res.modified =
               Cardinality({i \in Counted : lines[i].c2 \notin {" ", "?"}})

\* an output longer than the buffer has been parsed: a header, a line from
\* the index with '?' in the first column, a line cut by the end of the buffer
C32_Witness ==
    /\ gitOut.parsed
    /\ Len(gitOut.lines) = 3
    /\ gitOut.lines[1].c1 = "#" /\ gitOut.lines[1].c2 = "#"
    /\ gitOut.lines[2].c1 = "?" /\ gitOut.lines[2].c2 = "M"
    /\ gitOut.lines[2].len = LongLen
    /\ gitOut.lines[3].c1 = "M"
    /\ gitOut.lines[1].len + gitOut.lines[2].len + 2 >= StatusBufCap
    /\ gitOut.res.staged = 0 /\ gitOut.res.modified = 1

\* C33: the ahead and behind counts come from the bracketed text of the
\* header alone.  For an output as git writes it (the header first, no other
\* line beginning with "##") that fits the buffer, after the parse ahead is
\* the ahead entry of the header's brackets and behind its behind entry, 0
\* where the brackets hold no such entry or the header has no brackets,
\* whatever the text of the lines after the header.
C33_AheadBehindFromHeaderOnly ==
    LET lines == gitOut.lines
        header == lines[1]
    IN  (/\ gitOut.parsed
         /\ Len(lines) >= 1
         /\ header.c1 = "#" /\ header.c2 = "#"
         /\ \A i \in 2..Len(lines) :
               /\ ~(lines[i].c1 = "#" /\ lines[i].c2 = "#")
               /\ lines[i].len < LongLen)
        => /\ gitOut.res.ahead = header.ahead
           /\ gitOut.res.behind = header.behind

\* ------------------------------------------------ repeated payloads: claims
\* C34: when an invocation receives the payload the invocation before it
\* received, and the two did not overlap, it does not open the session cache
\* file for writing and leaves the file as it was, however long after the
\* first it runs.
C34_SamePayloadNoWrite ==
    [][(/\ pc[1] = "idle" /\ pc'[1] # "idle"
        /\ loc'[1].has_stdin
        /\ hist.last.has_stdin
        /\ hist.last.fields = loc'[1].fields)
       => pc'[1] = "resolved"]_vars

\* ------------------------------------------ session cache file name: claims
\* C35: every session cache file is named with an identifier the sweep can
\* probe: for each identifier an invocation resolves for the name of its
\* file, a sweep that finds the file and no living process unlinks it.
C35_NameIsSweepable ==
    \A i \in 1..Len(ptree.ids) :
        LET entry == [head |-> "statusline-cache.", num |-> ptree.ids[i]]
        IN  entry \in SweepVictims({entry}, [pid \in Pids |-> "dead"])

\* --------------------------------------------------- long strings: claims
\* C36: a string of the payload longer than its field of the record is cut to
\* its first bytes, 255 of the working directory and 63 of the model name, and
\* the invocation goes on to its end; the string persisted for a string the
\* payload carries is a prefix of it: as many of its first bytes as fit.
C36_PersistedIsPrefix ==
    LET IsPrefixOf(a, b) == a.len = 0 \/ (a.tag = b.tag /\ a.len <= b.len)
        dir == loc[1].fields.current_dir
        name == loc[1].fields.display_name
        rec == Persisted(stateFile)
    IN  (pc[1] = "resolved" /\ loc[1].has_stdin) =>
          /\ stateFile.size = CachedStateSize \/ rec = ZeroState
          /\ dir.len > 0 =>
                /\ IsPrefixOf(rec.working_directory, dir)
                /\ rec.working_directory.len = Min(dir.len, 255)
          /\ name.len > 0 =>
                /\ IsPrefixOf(rec.model, name)
                /\ rec.model.len = Min(name.len, 63)

\* An invocation whose payload carried a working directory of 300 bytes has
\* written its record over one that held another directory, and is at its end
C36_Witness ==
    /\ pc[1] = "resolved" /\ loc[1].has_stdin
    /\ loc[1].fields.current_dir.len > CachedDirCap
    /\ loc[1].before.working_directory.len > 0
    /\ loc[1].before.working_directory.tag # loc[1].fields.current_dir.tag
    /\ stateFile = FullFile(loc[1].new_cache)
    /\ Persisted(stateFile).working_directory.len = 255

\* ------------------------------------------------ long repository paths: claims
\* C37: whatever the length of the repository's path, an entry written for the
\* repository holds a path that compares equal to the repository's on the next
\* read, so that the read does not classify the entry a Miss.
C37_StoredPathComparesEqual ==
    gitFile.size = GitCacheSize =>
        /\ StrncmpEq(gitFile.rec.repo_path, repoPath, GitRepoPathCap)
        /\ ReadGitCache(repoPath, gitFile, index, clock) # "NONE"

====
